---- MODULE Spec2Model ----
(***************************************************************************)
(* A model of src/basic/tools.ts of wx-calendar: the once-emitter, the     *)
(* circular panel distance, the view-flag encoding, the layout hide-class  *)
(* utilities and the host-callback-to-promise adapters.                    *)
(*                                                                         *)
(* Each group of helpers has its own variables, its own initial predicate  *)
(* and its own specification; the variables of the other groups are held   *)
(* at a fixed idle value meanwhile.                                        *)
(***************************************************************************)
EXTENDS Integers, Sequences, FiniteSets, TLC

VARIABLES
    \* onceEmitter
    event,          \* the event name the emitter was created with
    emits,          \* the closure-held counter `emits`
    triggered,      \* the instance.triggerEvent calls made so far, in order
    calls,          \* the emit/cancel calls made on the emitter so far, in order
    \* circularDiff
    CALENDAR_PANELS,\* the panel count the build was configured with
    idx,            \* argument idx (the target index)
    curr,           \* argument curr (the current index)
    diff,           \* <<d>> once circularDiff has returned d, <<>> before
    \* viewFlag, flagView, isView
    view,           \* the argument of viewFlag
    flag,           \* <<f>> once viewFlag(view) has returned f, <<>> before
    back,           \* <<v>> once flagView(f) has returned v, <<>> before
    probe,          \* the argument of isView
    isv,            \* <<b>> once isView(probe) has returned b, <<>> before
    \* layoutHideCls, addLayoutHideCls, hasLayoutArea
    layout,         \* the argument of layoutHideCls: <<>> for undefined, <<l>> for array l
    cls,            \* <<s>> once the class string s has been computed, <<>> before
    added,          \* the areas passed to addLayoutHideCls so far, in order
    \* severalTicks, one entry per call
    ticks,          \* the argument n the call was made with
    n,              \* the call's local n
    pc,             \* where the call stands: idle, await, resume, done
    tickQueue,      \* the callbacks handed to wx.nextTick and not fired yet
    issued,         \* how many times the call has invoked wx.nextTick
    fired,          \* how many of the call's tick callbacks the host has fired
    returned,       \* whether the promise severalTicks returned is resolved
    \* nextTick, applyAnimated, clearAnimated, viewportOffset, nodeRect
    promises,       \* the promise each of the first four adapters returned
    callback,       \* what the callback given to nextTick does
    hostFired,      \* the adapters whose host callback has fired
    rectSel,        \* per nodeRect query: the selector, "" before the call
    rectP,          \* per nodeRect query: the promise returned
    rectResults     \* per nodeRect query: the result lists the host has delivered

varsEmitter == <<event, emits, triggered, calls>>
varsDiff    == <<CALENDAR_PANELS, idx, curr, diff>>
varsView    == <<view, flag, back, probe, isv>>
varsLayout  == <<layout, cls, added>>

varsTicks   == <<ticks, n, pc, tickQueue, issued, fired, returned>>
varsAdapt   == <<promises, callback, hostFired, rectSel, rectP, rectResults>>

vars == <<varsEmitter, varsDiff, varsView, varsLayout, varsTicks, varsAdapt>>

\* What the actions of one group leave alone.
exceptEmitter == <<varsDiff, varsView, varsLayout, varsTicks, varsAdapt>>
exceptDiff    == <<varsEmitter, varsView, varsLayout, varsTicks, varsAdapt>>
exceptView    == <<varsEmitter, varsDiff, varsLayout, varsTicks, varsAdapt>>
exceptLayout  == <<varsEmitter, varsDiff, varsView, varsTicks, varsAdapt>>
exceptTicks   == <<varsEmitter, varsDiff, varsView, varsLayout, varsAdapt>>
exceptAdapt   == <<varsEmitter, varsDiff, varsView, varsLayout, varsTicks>>

Undefined == "undefined"

(***************************************************************************)
(* Bounds                                                                  *)
(***************************************************************************)
MaxCalls  == 4      \* emit/cancel calls made on one emitter
MaxPanels == 5      \* largest panel count tried
MaxIndex  == 3      \* |curr| is at most this
Slack     == 2      \* how far idx is drawn outside [curr - N, curr + N]
MaxProbe  == 9      \* isView is tried on -1..MaxProbe
MaxAdds   == 2      \* addLayoutHideCls calls made on one class string
MaxTicks  == 3      \* largest argument given to severalTicks
MaxFires  == 2      \* times the host delivers results to one nodeRect callback

(***************************************************************************)
(* onceEmitter                                                             *)
(***************************************************************************)
Events  == {"click", "change"}
Details == {<<>>, <<"x">>, <<"x", "y">>}

IdleEmitter ==
    /\ event = Undefined
    /\ emits = 0
    /\ triggered = <<>>
    /\ calls = <<>>

\* onceEmitter(instance, event): `let emits = 0` and the two closures.
onceEmitter ==
    /\ event \in Events
    /\ emits = 0
    /\ triggered = <<>>
    /\ calls = <<>>

\* A variant of emit that forgets the `return`: it fires on every call.
emitAlways(detail) ==
    /\ Len(calls) < MaxCalls
    /\ emits' = emits + 1
    /\ triggered' = Append(triggered, [event |-> event, detail |-> detail])
    /\ calls' = Append(calls, [op |-> "emit", detail |-> detail])
    /\ UNCHANGED <<event, exceptEmitter>>

\* emit(...detail): `if (emits++) return; instance.triggerEvent(event, ...detail)`.
\* The post-increment happens whether or not the call returns early.
emit(detail) ==
    /\ Len(calls) < MaxCalls
    /\ emits' = emits + 1
    /\ triggered' = IF emits # 0
                    THEN triggered
                    ELSE Append(triggered, [event |-> event, detail |-> detail])
    /\ calls' = Append(calls, [op |-> "emit", detail |-> detail])
    /\ UNCHANGED <<event, exceptEmitter>>

\* A variant of cancel that leaves the counter alone.
cancelNoop ==
    /\ Len(calls) < MaxCalls
    /\ emits' = emits
    /\ calls' = Append(calls, [op |-> "cancel", detail |-> <<>>])
    /\ UNCHANGED <<event, triggered, exceptEmitter>>

\* cancel(): `emits++`.
cancel ==
    /\ Len(calls) < MaxCalls
    /\ emits' = emits + 1
    /\ calls' = Append(calls, [op |-> "cancel", detail |-> <<>>])
    /\ UNCHANGED <<event, triggered, exceptEmitter>>

NextEmitter ==
    \/ \E detail \in Details : emit(detail)
    \/ cancel

(***************************************************************************)
(* circularDiff                                                            *)
(***************************************************************************)
IdleDiff ==
    /\ CALENDAR_PANELS = 1
    /\ idx = 0
    /\ curr = 0
    /\ diff = <<>>

InitDiff ==
    /\ CALENDAR_PANELS \in 1..MaxPanels
    /\ curr \in -MaxIndex..MaxIndex
    /\ idx \in (curr - CALENDAR_PANELS - Slack)..(curr + CALENDAR_PANELS + Slack)
    /\ diff = <<>>

\* Math.floor(x / 2) for an integer x >= 0
FloorHalf(x) == x \div 2

\* A variant of circularDiff whose two tests are not strict.
circularDiffLoose(i, c) ==
    LET half == FloorHalf(CALENDAR_PANELS)
        i1   == IF i <= c - half THEN i + CALENDAR_PANELS ELSE i
        i2   == IF i1 >= c + half THEN i1 - CALENDAR_PANELS ELSE i1
    IN  i2 - c

\* circularDiff(idx, curr): the two `if`s run in sequence, the second on the
\* value the first may have changed.
circularDiff(i, c) ==
    LET half == FloorHalf(CALENDAR_PANELS)
        i1   == IF i < c - half THEN i + CALENDAR_PANELS ELSE i
        i2   == IF i1 > c + half THEN i1 - CALENDAR_PANELS ELSE i1
    IN  i2 - c

CallCircularDiff ==
    /\ diff = <<>>
    /\ diff' = <<circularDiff(idx, curr)>>
    /\ UNCHANGED <<CALENDAR_PANELS, idx, curr, exceptDiff>>

NextDiff == CallCircularDiff

(***************************************************************************)
(* View flags.  constants.ts is not part of the sources at hand; VIEWS and *)
(* the View enum follow the specification: the ordered view names week,    *)
(* month, schedule, and one bit per position of that list.                 *)
(***************************************************************************)
VIEWS == [WEEK |-> "week", MONTH |-> "month", SCHEDULE |-> "schedule"]

View == [week |-> 1, month |-> 2, schedule |-> 4]

\* values(VIEWS): the property values in declaration order
valuesVIEWS == <<VIEWS.WEEK, VIEWS.MONTH, VIEWS.SCHEDULE>>

\* Array.prototype.indexOf, zero-based, -1 when absent
indexOf(arr, item) ==
    IF \E i \in 1..Len(arr) : arr[i] = item
    THEN (CHOOSE i \in 1..Len(arr) :
             arr[i] = item /\ \A j \in 1..(i - 1) : arr[j] # item) - 1
    ELSE -1

\* 1 << n on 32-bit integers: the shift count is taken modulo 32 and bit 31
\* is the sign bit
ShiftLeftOne(count) ==
    LET k == count % 32
    IN  IF k = 31 THEN -(2 ^ 31) ELSE 2 ^ k

IsPowerOfTwo(x) == \E k \in 0..30 : x = 2 ^ k

\* Math.log2 of a power of two (exact there)
RECURSIVE Log2(_)
Log2(x) == IF x <= 1 THEN 0 ELSE 1 + Log2(x \div 2)

ViewNames == {"", "week", "month", "schedule", "bogus", "Week"}

IdleView ==
    /\ view = ""
    /\ flag = <<>>
    /\ back = <<>>
    /\ probe = 0
    /\ isv = <<>>

InitView ==
    /\ view \in ViewNames
    /\ probe \in -1..MaxProbe
    /\ flag = <<>>
    /\ back = <<>>
    /\ isv = <<>>

\* A variant of viewFlag that falls back to the week view for unknown names.
viewFlagWeek(v) ==
    LET inputView == IF v = "" THEN VIEWS.MONTH ELSE v
        i         == indexOf(valuesVIEWS, inputView)
    IN  IF i < 0 THEN View.week ELSE ShiftLeftOne(i)

\* viewFlag(view): `view || VIEWS.MONTH`, then indexOf, then
\* `idx < 0 ? View.month : 1 << idx`.
viewFlag(v) ==
    LET inputView == IF v = "" THEN VIEWS.MONTH ELSE v
        i         == indexOf(valuesVIEWS, inputView)
    IN  IF i < 0 THEN View.month ELSE ShiftLeftOne(i)

\* A variant of isView that forgets the schedule view.
isViewTwo(f) == f = View.week \/ f = View.month

\* isView(flag): strict equality with one of the three enum members.
isView(f) == f = View.week \/ f = View.month \/ f = View.schedule

\* A variant of flagView that indexes with the flag itself.
flagViewRaw(f) ==
    IF f \in 0..(Len(valuesVIEWS) - 1) THEN valuesVIEWS[f + 1] ELSE Undefined

\* flagView(flag): values(VIEWS)[Math.log2(flag)]; an index that is not an
\* integer within the array reads undefined.
flagView(f) ==
    IF IsPowerOfTwo(f) /\ Log2(f) < Len(valuesVIEWS)
    THEN valuesVIEWS[Log2(f) + 1]
    ELSE Undefined

CallViewFlag ==
    /\ flag = <<>>
    /\ flag' = <<viewFlag(view)>>
    /\ UNCHANGED <<view, back, probe, isv, exceptView>>

CallFlagView ==
    /\ flag # <<>>
    /\ back = <<>>
    /\ back' = <<flagView(flag[1])>>
    /\ UNCHANGED <<view, flag, probe, isv, exceptView>>

CallIsView ==
    /\ isv = <<>>
    /\ isv' = <<isView(probe)>>
    /\ UNCHANGED <<view, flag, back, probe, exceptView>>

NextView ==
    \/ CallViewFlag
    \/ CallFlagView
    \/ CallIsView

(***************************************************************************)
(* Layout hide classes.  FULL_LAYOUT comes from constants.ts as well: the  *)
(* six layout areas of the calendar, in layout order.                      *)
(***************************************************************************)
LHCP == "wc--hide-"

FULL_LAYOUT == <<"header", "title", "subinfo", "today", "viewbar", "dragbar">>

Areas == {FULL_LAYOUT[i] : i \in 1..Len(FULL_LAYOUT)}

\* Array.prototype.includes
includes(arr, item) == \E i \in 1..Len(arr) : arr[i] = item

\* Array.prototype.join
RECURSIVE join(_, _)
join(arr, sep) ==
    IF arr = <<>> THEN ""
    ELSE IF Len(arr) = 1 THEN arr[1]
    ELSE arr[1] \o sep \o join(Tail(arr), sep)

\* Array.prototype.map(item => `${LHCP}${item}`)
hideTokens(arr) == [i \in 1..Len(arr) |-> LHCP \o arr[i]]

\* new RegExp(`${LHCP}${area}\\s*`).test(cls): an unanchored search for the
\* token followed by zero or more white space, so for the token anywhere.
regTest(area, s) ==
    LET token == LHCP \o area
    IN  \E i \in 1..(Len(s) - Len(token) + 1) :
            SubSeq(s, i, i + Len(token) - 1) = token

\* The arrays tried: every subset of the full list, in the list's order.
Layouts == {SelectSeq(FULL_LAYOUT, LAMBDA a : a \in S) : S \in SUBSET Areas}

IdleLayout ==
    /\ layout = <<>>
    /\ cls = <<>>
    /\ added = <<>>

InitLayout ==
    /\ layout \in {<<>>} \cup {<<l>> : l \in Layouts}
    /\ cls = <<>>
    /\ added = <<>>

\* A variant of layoutHideCls that lists the areas of the layout itself.
layoutHideClsKept(l) ==
    IF l = <<>> \/ Len(l[1]) = 0 THEN ""
    ELSE join(hideTokens(SelectSeq(FULL_LAYOUT, LAMBDA item : includes(l[1], item))), " ")

\* layoutHideCls(layout): `if (!layout?.length) return ''`, then the areas of
\* FULL_LAYOUT the layout does not include (Array.prototype.filter is
\* SelectSeq), as hide tokens joined by a space.
layoutHideCls(l) ==
    IF l = <<>> \/ Len(l[1]) = 0 THEN ""
    ELSE join(hideTokens(SelectSeq(FULL_LAYOUT, LAMBDA item : ~includes(l[1], item))), " ")

\* A variant of addLayoutHideCls without the regular expression test.
addLayoutHideClsAlways(s, area) == s \o " " \o LHCP \o area

\* addLayoutHideCls(cls, area): the string itself when the test matches, else
\* `${cls} ${LHCP}${area}`.
addLayoutHideCls(s, area) ==
    IF regTest(area, s) THEN s ELSE s \o " " \o LHCP \o area

\* A variant of hasLayoutArea that drops the negation.
hasLayoutAreaPlain(s, area) == regTest(area, s)

\* hasLayoutArea(cls, area)
hasLayoutArea(s, area) == ~regTest(area, s)

CallLayoutHideCls ==
    /\ cls = <<>>
    /\ cls' = <<layoutHideCls(layout)>>
    /\ UNCHANGED <<layout, added, exceptLayout>>

CallAddLayoutHideCls(area) ==
    /\ cls # <<>>
    /\ Len(added) < MaxAdds
    /\ cls' = <<addLayoutHideCls(cls[1], area)>>
    /\ added' = Append(added, area)
    /\ UNCHANGED <<layout, exceptLayout>>

NextLayout ==
    \/ CallLayoutHideCls
    \/ \E area \in Areas : CallAddLayoutHideCls(area)

(***************************************************************************)
(* severalTicks and nextTick.  Two calls of severalTicks run side by side; *)
(* the host fires the callbacks it was handed, one at a time, whenever it  *)
(* chooses.                                                                *)
(***************************************************************************)
Callers == {1, 2}

IdleTicks ==
    /\ ticks = [c \in Callers |-> 0]
    /\ n = [c \in Callers |-> 0]
    /\ pc = [c \in Callers |-> "idle"]
    /\ tickQueue = <<>>
    /\ issued = [c \in Callers |-> 0]
    /\ fired = [c \in Callers |-> 0]
    /\ returned = [c \in Callers |-> FALSE]

InitTicks == IdleTicks

\* A variant of the loop without the `await`: the function goes on to the
\* next test without waiting for the tick's callback.
whileStepNoAwait(c, cur) ==
    IF cur # 0
    THEN /\ n' = [n EXCEPT ![c] = cur - 1]
         /\ tickQueue' = Append(tickQueue, c)
         /\ issued' = [issued EXCEPT ![c] = @ + 1]
         /\ pc' = [pc EXCEPT ![c] = "resume"]
         /\ UNCHANGED returned
    ELSE /\ n' = [n EXCEPT ![c] = cur - 1]
         /\ pc' = [pc EXCEPT ![c] = "done"]
         /\ returned' = [returned EXCEPT ![c] = TRUE]
         /\ UNCHANGED <<tickQueue, issued>>

\* One evaluation of `while (n--)` with n = cur, up to the next suspension:
\* a truthy n is decremented and the body runs nextTick(), which hands one
\* callback to wx.nextTick, and awaits its promise; n = 0 is decremented and
\* the function returns, which resolves the promise it returned.
whileStep(c, cur) ==
    IF cur # 0
    THEN /\ n' = [n EXCEPT ![c] = cur - 1]
         /\ tickQueue' = Append(tickQueue, c)
         /\ issued' = [issued EXCEPT ![c] = @ + 1]
         /\ pc' = [pc EXCEPT ![c] = "await"]
         /\ UNCHANGED returned
    ELSE /\ n' = [n EXCEPT ![c] = cur - 1]
         /\ pc' = [pc EXCEPT ![c] = "done"]
         /\ returned' = [returned EXCEPT ![c] = TRUE]
         /\ UNCHANGED <<tickQueue, issued>>

\* severalTicks(k): the body runs synchronously up to its first await.
severalTicks(c, k) ==
    /\ pc[c] = "idle"
    /\ ticks' = [ticks EXCEPT ![c] = k]
    /\ whileStep(c, k)
    /\ UNCHANGED <<fired, exceptTicks>>

\* The host fires one callback handed to wx.nextTick: `resolve(callback?.())`
\* with no callback resolves nextTick's promise, which queues the awaiting
\* function's continuation.
HostTick(i) ==
    /\ i \in 1..Len(tickQueue)
    /\ LET c == tickQueue[i]
       IN  /\ fired' = [fired EXCEPT ![c] = @ + 1]
           /\ pc' = [pc EXCEPT ![c] = "resume"]
    /\ tickQueue' = SubSeq(tickQueue, 1, i - 1) \o SubSeq(tickQueue, i + 1, Len(tickQueue))
    /\ UNCHANGED <<ticks, n, issued, returned, exceptTicks>>

\* The continuation after `await nextTick()`: back to the loop test.
Resume(c) ==
    /\ pc[c] = "resume"
    /\ whileStep(c, n[c])
    /\ UNCHANGED <<ticks, fired, exceptTicks>>

NextTicks ==
    \/ \E c \in Callers : \E k \in 0..MaxTicks : severalTicks(c, k)
    \/ \E i \in 1..Len(tickQueue) : HostTick(i)
    \/ \E c \in Callers : Resume(c)

(***************************************************************************)
(* The adapters.  Each host method is taken to return normally; the host   *)
(* fires the callback it was given when it chooses, or never.  nodeRect's  *)
(* queries share one selector query object, and a later exec() of it may   *)
(* deliver results to an earlier callback again.                           *)
(***************************************************************************)
Adapters  == {"nextTick", "applyAnimated", "clearAnimated", "viewportOffset"}
Queries   == {1, 2}
Selectors == {".wc-panel", "#bar"}
RectLists == {<<>>, <<"r1">>, <<"r1", "r2">>}

\* What the optional callback of nextTick does when called: there is none, it
\* returns a value, it returns a promise that fulfils, it returns a promise
\* that rejects, or it throws.
Callbacks == {"none", "value", "asyncOk", "asyncFail", "throws"}

NoPromise    == [state |-> "none", value |-> <<>>, reason |-> ""]
Pending      == [state |-> "pending", value |-> <<>>, reason |-> ""]
Fulfilled(v) == [state |-> "fulfilled", value |-> v, reason |-> ""]
Rejected(r)  == [state |-> "rejected", value |-> <<>>, reason |-> r]

\* The resolve and reject functions of `new Promise`: only the first call on
\* a pending promise settles it.
Settle(p, outcome) == IF p.state = "pending" THEN outcome ELSE p

IdleAdapt ==
    /\ promises = [a \in Adapters |-> NoPromise]
    /\ callback = "none"
    /\ hostFired = {}
    /\ rectSel = [q \in Queries |-> ""]
    /\ rectP = [q \in Queries |-> NoPromise]
    /\ rectResults = [q \in Queries |-> <<>>]

InitAdapt == IdleAdapt

\* nextTick(callback): the promise is pending once wx.nextTick has the callback.
nextTick(cb) ==
    /\ promises["nextTick"].state = "none"
    /\ promises' = [promises EXCEPT !["nextTick"] = Pending]
    /\ callback' = cb
    /\ UNCHANGED <<hostFired, rectSel, rectP, rectResults, exceptAdapt>>

\* `resolve(callback?.())`: a promise returned by the callback is adopted, a
\* throw leaves resolve uncalled.
tickOutcome(cb) ==
    CASE cb = "none"      -> Fulfilled(<<>>)
      [] cb = "value"     -> Fulfilled(<<"ret">>)
      [] cb = "asyncOk"   -> Fulfilled(<<"ret">>)
      [] cb = "asyncFail" -> Rejected("err")
      [] cb = "throws"    -> Pending

FireNextTick ==
    /\ promises["nextTick"].state = "pending"
    /\ "nextTick" \notin hostFired
    /\ hostFired' = hostFired \cup {"nextTick"}
    /\ promises' = [promises EXCEPT !["nextTick"] = Settle(@, tickOutcome(callback))]
    /\ UNCHANGED <<callback, rectSel, rectP, rectResults, exceptAdapt>>

\* applyAnimated, clearAnimated, viewportOffset: `new Promise(resolve => ...)`
\* around one host call.
CallAdapter(a) ==
    /\ a \in Adapters \ {"nextTick"}
    /\ promises[a].state = "none"
    /\ promises' = [promises EXCEPT ![a] = Pending]
    /\ UNCHANGED <<callback, hostFired, rectSel, rectP, rectResults, exceptAdapt>>

\* What each of the three resolves with: result.styleId, nothing, the scroll
\* offset the host passes to resolve.
adapterOutcome(a) ==
    CASE a = "applyAnimated"  -> Fulfilled(<<"styleId">>)
      [] a = "clearAnimated"  -> Fulfilled(<<>>)
      [] a = "viewportOffset" -> Fulfilled(<<"scrollOffset">>)

FireAdapter(a) ==
    /\ a \in Adapters \ {"nextTick"}
    /\ promises[a].state = "pending"
    /\ a \notin hostFired
    /\ hostFired' = hostFired \cup {a}
    /\ promises' = [promises EXCEPT ![a] = Settle(@, adapterOutcome(a))]
    /\ UNCHANGED <<callback, rectSel, rectP, rectResults, exceptAdapt>>

\* nodeRect(component)(selector): the promise is pending once exec() has run.
nodeRect(q, selector) ==
    /\ rectSel[q] = ""
    /\ rectSel' = [rectSel EXCEPT ![q] = selector]
    /\ rectP' = [rectP EXCEPT ![q] = Pending]
    /\ UNCHANGED <<promises, callback, hostFired, rectResults, exceptAdapt>>

\* A variant of the callback that tests the list itself, not its length.
rectCallbackTruthy(selector, rects) == Fulfilled(rects)

\* The boundingClientRect callback: `if (rects.length) resolve(rects); else
\* reject(...)`.
rectCallback(selector, rects) ==
    IF Len(rects) # 0
    THEN Fulfilled(rects)
    ELSE Rejected("view not found by selector " \o selector)

FireNodeRect(q, rects) ==
    /\ rectSel[q] # ""
    /\ Len(rectResults[q]) < MaxFires
    /\ rectResults' = [rectResults EXCEPT ![q] = Append(@, rects)]
    /\ rectP' = [rectP EXCEPT ![q] = Settle(@, rectCallback(rectSel[q], rects))]
    /\ UNCHANGED <<promises, callback, hostFired, rectSel, exceptAdapt>>

NextAdapt ==
    \/ \E cb \in Callbacks : nextTick(cb)
    \/ FireNextTick
    \/ \E a \in Adapters : CallAdapter(a)
    \/ \E a \in Adapters : FireAdapter(a)
    \/ \E q \in Queries : \E selector \in Selectors : nodeRect(q, selector)
    \/ \E q \in Queries : \E rects \in RectLists : FireNodeRect(q, rects)

(***************************************************************************)
(* Specifications                                                          *)
(***************************************************************************)
\* Each specification starts one group of helpers and holds the others idle.
StartEmitter ==
    onceEmitter /\ IdleDiff /\ IdleView /\ IdleLayout /\ IdleTicks /\ IdleAdapt

SpecEmitter == StartEmitter /\ [][NextEmitter]_vars

StartDiff ==
    InitDiff /\ IdleEmitter /\ IdleView /\ IdleLayout /\ IdleTicks /\ IdleAdapt

SpecDiff == StartDiff /\ [][NextDiff]_vars

StartView ==
    InitView /\ IdleEmitter /\ IdleDiff /\ IdleLayout /\ IdleTicks /\ IdleAdapt

SpecView == StartView /\ [][NextView]_vars

StartLayout ==
    InitLayout /\ IdleEmitter /\ IdleDiff /\ IdleView /\ IdleTicks /\ IdleAdapt

SpecLayout == StartLayout /\ [][NextLayout]_vars

StartTicks ==
    InitTicks /\ IdleEmitter /\ IdleDiff /\ IdleView /\ IdleLayout /\ IdleAdapt

SpecTicks == StartTicks /\ [][NextTicks]_vars

StartAdapt ==
    InitAdapt /\ IdleEmitter /\ IdleDiff /\ IdleView /\ IdleLayout /\ IdleTicks

SpecAdapt == StartAdapt /\ [][NextAdapt]_vars

(***************************************************************************)
(* Claims: onceEmitter                                                     *)
(***************************************************************************)
FirstCallIs(op) == calls # <<>> /\ calls[1].op = op

\* C1: triggerEvent is invoked at most once over any sequence of emit and
\* cancel calls; when the first call is emit it is invoked exactly once, with
\* the event name and the detail of that first emit, whatever follows.
C1_EmitFiresOnce ==
    /\ Len(triggered) <= 1
    /\ FirstCallIs("emit") =>
          triggered = <<[event |-> event, detail |-> calls[1].detail]>>

C1_Witness ==
    /\ FirstCallIs("emit")
    /\ Len(calls) >= 3
    /\ \E i \in 2..Len(calls) : calls[i].op = "emit" /\ calls[i].detail # calls[1].detail
    /\ Len(triggered) = 1

\* C2: once cancel has been called before any emit, no emit ever invokes
\* triggerEvent; cancel itself emits nothing and leaves the emitter fired, and
\* a fired emitter (emits # 0) never becomes armed (emits = 0) again.
C2_CancelPreempts ==
    [][ /\ (emits # 0 => emits' # 0)
        /\ (FirstCallIs("cancel")' => triggered' = <<>>)
        /\ (Len(calls') > Len(calls) /\ calls'[Len(calls')].op = "cancel"
              => triggered' = triggered /\ emits' # 0) ]_vars

C2_Witness ==
    /\ FirstCallIs("cancel")
    /\ Len(calls) >= 3
    /\ \E i \in 2..Len(calls) : calls[i].op = "emit"
    /\ \E i \in 2..Len(calls) : calls[i].op = "cancel"
    /\ triggered = <<>>

(***************************************************************************)
(* Claims: circularDiff                                                    *)
(***************************************************************************)
Abs(x) == IF x < 0 THEN -x ELSE x

\* C3: for a target within one period of the current index, the displacement
\* returned is at most floor(N/2) in magnitude and lands on a panel congruent
\* to the target modulo N.
C3_ShortestDisplacement ==
    (/\ diff # <<>>
     /\ curr - CALENDAR_PANELS <= idx
     /\ idx <= curr + CALENDAR_PANELS)
    => /\ Abs(diff[1]) <= FloorHalf(CALENDAR_PANELS)
       /\ (curr + diff[1]) % CALENDAR_PANELS = idx % CALENDAR_PANELS

C3_Witness ==
    /\ diff = <<1>>
    /\ CALENDAR_PANELS = 4
    /\ idx = curr - CALENDAR_PANELS + 1

(***************************************************************************)
(* Claims: view flags                                                      *)
(***************************************************************************)
Recognized == {valuesVIEWS[i] : i \in 1..Len(valuesVIEWS)}

\* C4 as stated: viewFlag of the empty string and of a name outside the view
\* list is the flag of the first view of the list, 1 << 0.
C4_FallbackIsFirstView ==
    (flag # <<>> /\ view \notin Recognized) => flag[1] = ShiftLeftOne(0)

\* C4 as amended: viewFlag of the empty string and of a name outside the view
\* list is the flag of the month view, 1 << (position of "month" in the list).
C4_FallbackIsMonthView ==
    (flag # <<>> /\ view \notin Recognized)
    => /\ flag[1] = ShiftLeftOne(indexOf(valuesVIEWS, VIEWS.MONTH))
       /\ flag[1] = viewFlag(VIEWS.MONTH)

C4_Witness ==
    /\ view = "bogus"
    /\ flag # <<>>
    /\ flag[1] = viewFlag("")

\* C5: for every name of the view list, viewFlag gives 1 << (its position)
\* and flagView of that flag gives the name back.
C5_RoundTrip ==
    (back # <<>> /\ view \in Recognized)
    => /\ flag[1] = ShiftLeftOne(indexOf(valuesVIEWS, view))
       /\ back[1] = view

C5_Witness ==
    /\ view = "schedule"
    /\ flag = <<4>>
    /\ back = <<"schedule">>

\* C6: isView(x) holds exactly when x is the flag of a name of the view list;
\* in particular it fails for 0 and for the first power of two past the list.
C6_IsViewExact ==
    isv # <<>>
    => /\ isv[1] = (\E name \in Recognized : probe = viewFlag(name))
       /\ (probe = 0 \/ probe = 2 ^ Len(valuesVIEWS)) => isv[1] = FALSE

C6_Witness ==
    /\ probe = 2 ^ Len(valuesVIEWS)
    /\ isv = <<FALSE>>

(***************************************************************************)
(* Claims: layout hide classes                                             *)
(***************************************************************************)
\* The tokens of a class string: its maximal runs of characters other than
\* a space, in order.
RECURSIVE tokensFrom(_, _, _)
tokensFrom(s, i, cur) ==
    IF i > Len(s)
    THEN (IF cur = "" THEN <<>> ELSE <<cur>>)
    ELSE IF SubSeq(s, i, i) = " "
         THEN (IF cur = "" THEN <<>> ELSE <<cur>>) \o tokensFrom(s, i + 1, "")
         ELSE tokensFrom(s, i + 1, cur \o SubSeq(s, i, i))

Tokens(s) == tokensFrom(s, 1, "")

TokenSet(s) == {Tokens(s)[i] : i \in 1..Len(Tokens(s))}

RECURSIVE SumLen(_)
SumLen(toks) == IF toks = <<>> THEN 0 ELSE Len(Head(toks)) + SumLen(Tail(toks))

Visible == IF layout = <<>> THEN {} ELSE {layout[1][i] : i \in 1..Len(layout[1])}

\* C9: layoutHideCls is "" for an empty or undefined layout; otherwise it holds
\* exactly one hide token for each area of the full list outside the layout,
\* in the full list's order, joined by single spaces.
C9_HideTokens ==
    (cls # <<>> /\ added = <<>>)
    => LET toks == Tokens(cls[1])
       IN  /\ Visible = {} => cls[1] = ""
           /\ Visible = Areas => cls[1] = ""
           /\ Visible # {} =>
                 /\ \A a \in Areas : (LHCP \o a \in TokenSet(cls[1])) <=> a \notin Visible
                 /\ Len(toks) = Cardinality(Areas \ Visible)
                 /\ \A i \in 1..Len(toks) : \A j \in (i + 1)..Len(toks) :
                       \E lo \in 1..Len(FULL_LAYOUT) : \E hi \in (lo + 1)..Len(FULL_LAYOUT) :
                           /\ toks[i] = LHCP \o FULL_LAYOUT[lo]
                           /\ toks[j] = LHCP \o FULL_LAYOUT[hi]
                 /\ Len(cls[1]) = SumLen(toks) + (IF toks = <<>> THEN 0 ELSE Len(toks) - 1)

C9_Witness ==
    /\ Visible = Areas \ {"today"}
    /\ cls = <<"wc--hide-today">>
    /\ added = <<>>

\* C10: on every class string built by layoutHideCls and addLayoutHideCls,
\* hasLayoutArea of an area holds exactly when the area's hide token is not
\* among the string's tokens; it fails for every area added; and adding an
\* area a second time changes nothing.
C10_HasAreaIffNoToken ==
    cls # <<>>
    => /\ \A a \in Areas :
             hasLayoutArea(cls[1], a) <=> (LHCP \o a \notin TokenSet(cls[1]))
       /\ \A i \in 1..Len(added) : ~hasLayoutArea(cls[1], added[i])
       /\ \A a \in Areas :
             addLayoutHideCls(addLayoutHideCls(cls[1], a), a) = addLayoutHideCls(cls[1], a)

C10_Witness ==
    /\ cls # <<>>
    /\ Len(added) = 2
    /\ added[1] = added[2]
    /\ Visible = Areas \ {"title"}
    /\ cls[1] = "wc--hide-title wc--hide-today"

(***************************************************************************)
(* Claims: severalTicks                                                    *)
(***************************************************************************)
Outstanding(c) == Cardinality({i \in 1..Len(tickQueue) : tickQueue[i] = c})

\* C7: a call of severalTicks(n) has at most one tick request outstanding,
\* requests tick k+1 only once the callback of tick k has fired, requests n
\* ticks in all, and its promise resolves only after the n-th callback.
C7_OneTickAtATime ==
    \A c \in Callers :
        /\ Outstanding(c) <= 1
        /\ Outstanding(c) = issued[c] - fired[c]
        /\ issued[c] <= fired[c] + 1
        /\ issued[c] <= ticks[c]
        /\ returned[c] => (issued[c] = ticks[c] /\ fired[c] = ticks[c])
        /\ returned[c] <=> pc[c] = "done"

C7_Witness ==
    /\ returned[1]
    /\ ticks[1] = MaxTicks
    /\ fired[1] = MaxTicks
    /\ ticks[2] = 2
    /\ fired[2] = 1
    /\ Outstanding(2) = 1

(***************************************************************************)
(* Claims: the adapters                                                    *)
(***************************************************************************)
\* The promise of a nodeRect query is pending until the host first delivers
\* results and is settled by that first delivery alone: rejected with the
\* message naming the selector when the list is empty, resolved with the
\* list otherwise.
RectSettledByFirst(q) ==
    /\ rectP[q].state = "none" <=> rectSel[q] = ""
    /\ rectP[q].state = "pending" <=> (rectSel[q] # "" /\ rectResults[q] = <<>>)
    /\ rectResults[q] # <<>> =>
          LET first == rectResults[q][1]
          IN  /\ rectP[q].state = "rejected" <=> first = <<>>
              /\ rectP[q].state = "fulfilled" <=> first # <<>>
              /\ first = <<>> =>
                    rectP[q].reason = "view not found by selector " \o rectSel[q]
              /\ first # <<>> => rectP[q].value = first

====
